---------------------------- MODULE Spec2Model ----------------------------
(***************************************************************************)
(* FluxFrame: the gateway's upload, the worker's three stage handlers      *)
(* (handle_preprocess, handle_inference, handle_postprocess) and the       *)
(* worker_loop that dispatches them, over the job collection, the three    *)
(* Redis lists, GridFS and the shared /media volume.                       *)
(*                                                                         *)
(* Frame indices are stored doubled (unit 1/2), so that the index i + 0.5  *)
(* of a generated frame is the integer 2*i + 1.  Frame rates are exact     *)
(* rationals <<numerator, denominator>>.                                   *)
(***************************************************************************)
EXTENDS Integers, Sequences, FiniteSets, TLC

\* ------------------------------------------------------------------ bounds
NumWorkers == 2
MaxJobs == 1
MaxFrames == 2
LongFrames == 10
MaxFaults == 2
MaxScore == 60
MaxPaths == 13

\* ------------------------------------------------------- program constants
limit == 5
DefaultFps == 30

Workers == 1..NumWorkers
Jobs == 1..MaxJobs

QUEUE_PREPROCESS == "preprocess_queue"
QUEUE_INFERENCE == "inference_queue"
QUEUE_POSTPROCESS == "postprocess_queue"
Queues == {QUEUE_PREPROCESS, QUEUE_INFERENCE, QUEUE_POSTPROCESS}

\* ----------------------------------------------------------------- values
NoFile == <<"none", 0, 0>>
NoError == <<"", "">>
NoFps == <<0, 1>>
Min(a, b) == IF a < b THEN a ELSE b

RatEq(p, q) == p[1] * q[2] = q[1] * p[2]

NoManifest ==
    [present |-> FALSE, frame_count |-> 0, fps |-> NoFps,
     analysed |-> FALSE, gridfs_frames |-> <<>>]

NoJob ==
    [exists |-> FALSE, status |-> "", history |-> <<>>, manifest |-> NoManifest,
     has_generated |-> FALSE, generated_frames |-> <<>>,
     final_video_id |-> NoFile, output_fps |-> NoFps, completed_at |-> FALSE,
     error |-> NoError]

NoLocals ==
    [err |-> NoError, fps |-> NoFps, has_audio |-> FALSE, frame_count |-> 0,
     analysed |-> FALSE, gridfs_frames |-> <<>>, frames |-> <<>>,
     generated_frames |-> <<>>, i |-> 0, original_frames |-> <<>>,
     all_frames |-> <<>>, target_fps |-> NoFps, video_id |-> NoFile]

NoScratch == [frames_dir |-> FALSE, frames |-> 0, audio |-> FALSE,
              reconstruct |-> FALSE, files |-> {}]

NoUpload == [present |-> FALSE, frames |-> 0, rate |-> NoFps, audio |-> FALSE]

NoEncode ==
    [done |-> FALSE, framerate |-> NoFps, files |-> {}, input |-> {}, audio |-> FALSE]

\* no call of the preprocessing module under study
NoCall == [fn |-> "none"]

\* nothing popped yet
NoneTaken == [q \in Queues |-> [j \in Jobs |-> 0]]

VARIABLES
    jobs,       \* db.jobs: job id -> document
    queue,      \* the three Redis lists
    gridfs,     \* ids of the files GridFS holds
    upload,     \* /media/uploads: the uploaded video file of each job
    disk,       \* /media scratch of each job: frames dir, audio file, reconstruct dir
    genlog,     \* the generation requests the model service received, in order
    encoded,    \* the last encoding run of each job
    pc,         \* each worker's position
    task,       \* the job id of the item a worker is handling
    loc,        \* a handler's local variables
    faults,     \* failures of external calls so far
    analysis,   \* a call of the preprocessing module: its arguments and its result
    taken       \* how often an item of each job was popped from each list

vars ==
    <<jobs, queue, gridfs, upload, disk, genlog, encoded, pc, task, loc, faults,
      analysis, taken>>

CanFail == faults < MaxFaults

\* one more failure of an external call
Fault ==
    /\ CanFail
    /\ faults' = faults + 1

\* ------------------------------------------------------------------ store
\* update_one({"_id": j}, ...) changes nothing when no document matches
UpdateJob(j, doc) == IF jobs[j].exists THEN [jobs EXCEPT ![j] = doc] ELSE jobs

\* log(job_id, message): $push of one history entry
log(j, message) ==
    UpdateJob(j, [jobs[j] EXCEPT !.history = Append(@, message)])

rpush(q, j) == [queue EXCEPT ![q] = Append(@, j)]

\* ----------------------------------------------------------------- gateway
ParseFps(r) == IF r[2] > 0 THEN r ELSE <<DefaultFps, 1>>

JobDoc ==
    [NoJob EXCEPT !.exists = TRUE, !.status = "queued", !.history = <<"queued">>]

\* the sample of video files uploaded: one per frame count, those with an odd
\* count carrying an audio stream and a frame rate with denominator 0
SampleVideo(n) ==
    [present |-> TRUE, frames |-> n,
     rate |-> IF n % 2 = 0 THEN <<30, 1>> ELSE <<25, 0>>, audio |-> n % 2 = 1]

VideoFiles(counts) == {SampleVideo(n) : n \in counts}

\* POST /upload: video and job records created, then the preprocess item queued
upload_video(j) ==
    /\ ~jobs[j].exists
    /\ \A k \in Jobs : k < j => jobs[k].exists
    /\ \E v \in VideoFiles(0..MaxFrames) :
         /\ upload' = [upload EXCEPT ![j] = v]
         /\ jobs' = [jobs EXCEPT ![j] = JobDoc]
         /\ \/ /\ queue' = rpush(QUEUE_PREPROCESS, j)
               /\ UNCHANGED faults
            \/ /\ Fault
               /\ UNCHANGED queue
    /\ UNCHANGED <<gridfs, disk, genlog, encoded, pc, task, loc, analysis, taken>>

\* ------------------------------------------------------------ worker_loop
Goto(w, label) == [pc EXCEPT ![w] = label]

\* a loop that may go on to the next list without finding this one empty
TakeOrPass(w, q, handler, next) ==
    \/ /\ queue[q] # <<>>
       /\ task' = [task EXCEPT ![w] = Head(queue[q])]
       /\ queue' = [queue EXCEPT ![q] = Tail(@)]
       /\ taken' = [taken EXCEPT ![q][Head(queue[q])] = @ + 1]
       /\ pc' = Goto(w, handler)
    \/ /\ pc' = Goto(w, next)
       /\ UNCHANGED <<task, queue, taken>>

\* a read of the head that leaves the item in the list
Peek(w, q, handler, next) ==
    IF queue[q] # <<>>
    THEN /\ task' = [task EXCEPT ![w] = Head(queue[q])]
         /\ taken' = [taken EXCEPT ![q][Head(queue[q])] = @ + 1]
         /\ pc' = Goto(w, handler)
         /\ UNCHANGED queue
    ELSE /\ pc' = Goto(w, next)
         /\ UNCHANGED <<task, queue, taken>>

\* lpop of list q: the handler is entered with the item, or the next list is tried
Take(w, q, handler, next) ==
    IF queue[q] # <<>>
    THEN /\ task' = [task EXCEPT ![w] = Head(queue[q])]
         /\ queue' = [queue EXCEPT ![q] = Tail(@)]
         /\ taken' = [taken EXCEPT ![q][Head(queue[q])] = @ + 1]
         /\ pc' = Goto(w, handler)
    ELSE /\ pc' = Goto(w, next)
         /\ UNCHANGED <<task, queue, taken>>

PopPreprocess(w) ==
    /\ pc[w] = "pop_pre"
    /\ Take(w, QUEUE_PREPROCESS, "pre_start", "pop_inf")
    /\ UNCHANGED <<jobs, gridfs, upload, analysis, disk, genlog, encoded, loc, faults>>

PopInference(w) ==
    /\ pc[w] = "pop_inf"
    /\ Take(w, QUEUE_INFERENCE, "inf_start", "pop_post")
    /\ UNCHANGED <<jobs, gridfs, upload, analysis, disk, genlog, encoded, loc, faults>>

PopPostprocess(w) ==
    /\ pc[w] = "pop_post"
    /\ Take(w, QUEUE_POSTPROCESS, "post_start", "sleep")
    /\ UNCHANGED <<jobs, gridfs, upload, analysis, disk, genlog, encoded, loc, faults>>

Sleep(w) ==
    /\ pc[w] = "sleep"
    /\ pc' = Goto(w, "pop_pre")
    /\ UNCHANGED <<jobs, queue, gridfs, upload, analysis, taken, disk, genlog, encoded, task, loc, faults>>

worker_loop(w) ==
    \/ PopPreprocess(w) \/ PopInference(w) \/ PopPostprocess(w) \/ Sleep(w)

\* ---------------------------------------------------------- control flow
\* the next statement, locals unchanged
Step(w, label) ==
    /\ pc' = Goto(w, label)
    /\ UNCHANGED <<task, loc, faults>>

\* the next statement, locals now l
StepWith(w, label, l) ==
    /\ pc' = Goto(w, label)
    /\ loc' = [loc EXCEPT ![w] = l]
    /\ UNCHANGED <<task, faults>>

\* the handler returns to worker_loop: its locals are gone
Return(w) ==
    /\ pc' = Goto(w, "pop_pre")
    /\ loc' = [loc EXCEPT ![w] = NoLocals]
    /\ task' = [task EXCEPT ![w] = 0]
    /\ UNCHANGED faults

\* a call raises inside a try block: the except branch at label reports e
Raise(w, e, label) ==
    /\ Fault
    /\ loc' = [loc EXCEPT ![w].err = e]
    /\ pc' = Goto(w, label)
    /\ UNCHANGED task

\* a call raises outside every try block: the exception ends worker_loop
Uncaught(w) ==
    /\ Fault
    /\ pc' = Goto(w, "dead")
    /\ loc' = [loc EXCEPT ![w] = NoLocals]
    /\ task' = [task EXCEPT ![w] = 0]

\* ------------------------------------------------------- handle_preprocess
\* the index an original frame gets from enumerate(frame_files)
OriginalIndex(idx) == 2 * idx

\* gridfs_frames after the first n files were put
GridfsFrames(j, n) ==
    [k \in 1..n |-> [index |-> OriginalIndex(k - 1), file_id |-> <<"frame", j, k - 1>>]]

FileIds(frames) == {frames[k].file_id : k \in 1..Len(frames)}

PreStart(w) ==
    /\ pc[w] = "pre_start"
    /\ \/ /\ jobs' = log(task[w], "Started Preprocessing: Frame Extraction")
          /\ Step(w, "pre_extract")
       \/ /\ Uncaught(w)
          /\ UNCHANGED jobs
    /\ UNCHANGED <<queue, gridfs, upload, analysis, taken, disk, genlog, encoded>>

\* steps 1-3: makedirs, probe, fps parsing, frame extraction
PreExtract(w) ==
    LET j == task[w]
        v == upload[j]
        made == [disk EXCEPT ![j].frames_dir = TRUE]
    IN  /\ pc[w] = "pre_extract"
        /\ \/ /\ Raise(w, <<"stderr", "probe">>, "pre_fail_log")
              /\ disk' = made
              /\ UNCHANGED jobs
           \/ /\ Raise(w, <<"exception", "log">>, "pre_fail_log")
              /\ disk' = made
              /\ UNCHANGED jobs
           \/ /\ Raise(w, <<"stderr", "extract">>, "pre_fail_log")
              /\ disk' = made
              /\ jobs' = log(j, "Extracting frames")
           \/ /\ jobs' = log(j, "Extracting frames")
              /\ disk' = [made EXCEPT ![j].frames = v.frames]
              /\ StepWith(w, IF v.audio THEN "pre_audio" ELSE "pre_analyze",
                          [loc[w] EXCEPT !.fps = ParseFps(v.rate)])
        /\ UNCHANGED <<queue, gridfs, upload, analysis, taken, genlog, encoded>>

\* step 4: the audio track, when the probe found an audio stream
PreAudio(w) ==
    LET j == task[w]
    IN  /\ pc[w] = "pre_audio"
        /\ \/ /\ Raise(w, <<"exception", "log">>, "pre_fail_log")
              /\ UNCHANGED <<jobs, disk>>
           \/ /\ Raise(w, <<"stderr", "audio">>, "pre_fail_log")
              /\ jobs' = log(j, "Extracting audio")
              /\ UNCHANGED disk
           \/ /\ jobs' = log(j, "Extracting audio")
              /\ disk' = [disk EXCEPT ![j].audio = TRUE]
              /\ StepWith(w, "pre_analyze", [loc[w] EXCEPT !.has_audio = TRUE])
        /\ UNCHANGED <<queue, gridfs, upload, analysis, taken, genlog, encoded>>

\* steps 5-6: frame count and preprocessing.analyze_video (None without frames).
\* With frames, detect_scenes and analyze_motion_optical_flow pass what
\* cv2.imread returns straight to cv2.resize: for a file that does not decode
\* imread returns None and resize raises, out of analyze_video (error "analysis")
PreAnalyze(w) ==
    LET j == task[w]
        n == disk[j].frames
    IN  /\ pc[w] = "pre_analyze"
        /\ \/ /\ Raise(w, <<"exception", "log">>, "pre_fail_log")
              /\ UNCHANGED jobs
           \/ /\ n > 0
              /\ Raise(w, <<"exception", "analysis">>, "pre_fail_log")
              /\ jobs' = log(j, "Running advanced preprocessing")
           \/ /\ jobs' = log(j, "Running advanced preprocessing")
              /\ StepWith(w, "pre_upload",
                          [loc[w] EXCEPT !.frame_count = n, !.analysed = n > 0])
        /\ UNCHANGED <<queue, gridfs, upload, analysis, taken, disk, genlog, encoded>>

\* steps 7-8: every frame file put into GridFS, then the video record updated
PreUpload(w) ==
    LET j == task[w]
        n == disk[j].frames
    IN  /\ pc[w] = "pre_upload"
        /\ \/ /\ Raise(w, <<"exception", "log">>, "pre_fail_log")
              /\ UNCHANGED <<jobs, gridfs>>
           \/ /\ Raise(w, <<"exception", "storage">>, "pre_fail_log")
              /\ jobs' = log(j, "Uploading frames to GridFS")
              /\ \E k \in 0..n : gridfs' = gridfs \cup FileIds(GridfsFrames(j, k))
           \/ /\ jobs' = log(j, "Uploading frames to GridFS")
              /\ gridfs' = gridfs \cup FileIds(GridfsFrames(j, n))
              /\ StepWith(w, "pre_update",
                          [loc[w] EXCEPT !.gridfs_frames = GridfsFrames(j, n)])
        /\ UNCHANGED <<queue, upload, analysis, taken, disk, genlog, encoded>>

\* step 9: the manifest, as the handler's locals give it
Manifest(l) ==
    [present |-> TRUE, frame_count |-> l.frame_count, fps |-> l.fps,
     analysed |-> l.analysed, gridfs_frames |-> l.gridfs_frames]

\* the update that stores the manifest and marks the job preprocessed
Preprocessed(doc, l) ==
    [doc EXCEPT !.status = "preprocessed",
                !.manifest = Manifest(l),
                !.history = Append(@, "frames_extracted_and_analyzed")]

PreUpdate(w) ==
    LET j == task[w]
    IN  /\ pc[w] = "pre_update"
        /\ \/ /\ Raise(w, <<"exception", "store">>, "pre_fail_log")
              /\ UNCHANGED jobs
           \/ /\ jobs' = UpdateJob(j, Preprocessed(jobs[j], loc[w]))
              /\ Step(w, "pre_push")
        /\ UNCHANGED <<queue, gridfs, upload, analysis, taken, disk, genlog, encoded>>

PrePush(w) ==
    /\ pc[w] = "pre_push"
    /\ \/ /\ Raise(w, <<"exception", "queue">>, "pre_fail_log")
          /\ UNCHANGED queue
       \/ /\ queue' = rpush(QUEUE_INFERENCE, task[w])
          /\ Step(w, "pre_log_done")
    /\ UNCHANGED <<jobs, gridfs, upload, analysis, taken, disk, genlog, encoded>>

PreLogDone(w) ==
    /\ pc[w] = "pre_log_done"
    /\ \/ /\ Raise(w, <<"exception", "log">>, "pre_fail_log")
          /\ UNCHANGED jobs
       \/ /\ jobs' = log(task[w], "Finished Preprocessing -> Pushed to Inference")
          /\ Return(w)
    /\ UNCHANGED <<queue, gridfs, upload, analysis, taken, disk, genlog, encoded>>

\* the history label an except branch logs for error e
ErrorLabel(e, ffmpeg_label, other_label) ==
    IF e[1] = "stderr" THEN ffmpeg_label ELSE other_label

\* an except branch that marks the job failed and drops the diagnostic
FailedSilently(doc, e) == [doc EXCEPT !.status = "failed"]

\* the update of an except branch
Failed(doc, e) == [doc EXCEPT !.status = "failed", !.error = e]

PreFailLog(w) ==
    /\ pc[w] = "pre_fail_log"
    /\ \/ /\ Uncaught(w)
          /\ UNCHANGED jobs
       \/ /\ jobs' = log(task[w], ErrorLabel(loc[w].err, "FFmpeg Error", "Preprocessing Error"))
          /\ Step(w, "pre_fail_update")
    /\ UNCHANGED <<queue, gridfs, upload, analysis, taken, disk, genlog, encoded>>

PreFailUpdate(w) ==
    /\ pc[w] = "pre_fail_update"
    /\ \/ /\ Uncaught(w)
          /\ UNCHANGED jobs
       \/ /\ jobs' = UpdateJob(task[w], Failed(jobs[task[w]], loc[w].err))
          /\ Return(w)
    /\ UNCHANGED <<queue, gridfs, upload, analysis, taken, disk, genlog, encoded>>

handle_preprocess(w) ==
    \/ PreStart(w) \/ PreExtract(w) \/ PreAudio(w) \/ PreAnalyze(w)
    \/ PreUpload(w) \/ PreUpdate(w) \/ PrePush(w) \/ PreLogDone(w)
    \/ PreFailLog(w) \/ PreFailUpdate(w)

\* -------------------------------------------------------- handle_inference
\* list.sort(key=index): a stable insertion sort by index
RECURSIVE Insert(_, _)
Insert(f, sorted) ==
    IF sorted = <<>> THEN <<f>>
    ELSE IF f.index < Head(sorted).index THEN <<f>> \o sorted
    ELSE <<Head(sorted)>> \o Insert(f, Tail(sorted))

RECURSIVE SortByIndex(_)
SortByIndex(frames) ==
    IF frames = <<>> THEN <<>>
    ELSE Insert(frames[Len(frames)], SortByIndex(SubSeq(frames, 1, Len(frames) - 1)))

\* the loop without its cap: every adjacent pair
EveryPair(frames) == Len(frames) - 1

\* range(min(len(frames) - 1, limit))
PairCount(frames) == Min(Len(frames) - 1, limit)

\* the record appended for a pair whose request returned gen_id
GeneratedFrame(start_frame, end_frame, gen_id) ==
    [index |-> start_frame.index + 1, file_id |-> gen_id,
     parent_start |-> start_frame.file_id, parent_end |-> end_frame.file_id]

\* POST /generate_lowres as the model service receives it, with its outcome
Request(j, start_frame, end_frame, outcome) ==
    [job_id |-> j, frame_start_id |-> start_frame.file_id,
     frame_end_id |-> end_frame.file_id, outcome |-> outcome]

\* the statement after pair i of the loop
AfterPair(l) ==
    IF l.i + 1 < PairCount(l.frames) THEN "inf_pair" ELSE "inf_update"

InfStart(w) ==
    /\ pc[w] = "inf_start"
    /\ \/ /\ jobs' = log(task[w], "Started Inference")
          /\ Step(w, "inf_fetch")
       \/ /\ Uncaught(w)
          /\ UNCHANGED jobs
    /\ UNCHANGED <<queue, gridfs, upload, analysis, taken, disk, genlog, encoded>>

\* find_one, the manifest check and the sort of the original frames
InfFetch(w) ==
    LET job == jobs[task[w]]
    IN  /\ pc[w] = "inf_fetch"
        /\ \/ Uncaught(w)
           \/ /\ ~job.exists \/ ~job.manifest.present
              /\ Step(w, "inf_missing")
           \/ /\ job.exists /\ job.manifest.present
              /\ StepWith(w, "inf_log_limit",
                          [loc[w] EXCEPT !.frames = SortByIndex(job.manifest.gridfs_frames)])
        /\ UNCHANGED <<jobs, queue, gridfs, upload, analysis, taken, disk, genlog, encoded>>

\* the early return: logged, nothing else written
InfMissing(w) ==
    /\ pc[w] = "inf_missing"
    /\ \/ /\ jobs' = log(task[w], "Inference Failed: Missing manifest or frames")
          /\ Return(w)
       \/ /\ Uncaught(w)
          /\ UNCHANGED jobs
    /\ UNCHANGED <<queue, gridfs, upload, analysis, taken, disk, genlog, encoded>>

InfLogLimit(w) ==
    /\ pc[w] = "inf_log_limit"
    /\ \/ /\ jobs' = log(task[w], "Processing first frame pairs for demo")
          /\ Step(w, IF 0 < PairCount(loc[w].frames) THEN "inf_pair" ELSE "inf_update")
       \/ /\ Uncaught(w)
          /\ UNCHANGED jobs
    /\ UNCHANGED <<queue, gridfs, upload, analysis, taken, disk, genlog, encoded>>

\* one pass of the pair loop: the request, then the log call of its branch
InfPair(w) ==
    LET j == task[w]
        l == loc[w]
        start_frame == l.frames[l.i + 1]
        end_frame == l.frames[l.i + 2]
        gen_id == <<"gen", j, l.i>>
        appended == [l EXCEPT !.generated_frames =
                        Append(@, GeneratedFrame(start_frame, end_frame, gen_id))]
        sent(outcome) ==
            [genlog EXCEPT ![j] = Append(@, Request(j, start_frame, end_frame, outcome))]
    IN  /\ pc[w] = "inf_pair"
        /\ \/ /\ genlog' = sent("ok")
              /\ gridfs' = gridfs \cup {gen_id}
              /\ jobs' = log(j, "Generated frame")
              /\ StepWith(w, AfterPair(l), [appended EXCEPT !.i = l.i + 1])
           \/ /\ genlog' = sent("ok")
              /\ gridfs' = gridfs \cup {gen_id}
              /\ Fault
              /\ loc' = [loc EXCEPT ![w] = appended]
              /\ pc' = Goto(w, "inf_log_error")
              /\ UNCHANGED <<jobs, task>>
           \/ /\ genlog' = sent("non200")
              /\ Fault
              /\ jobs' = log(j, "Base Model error for pair")
              /\ loc' = [loc EXCEPT ![w].i = l.i + 1]
              /\ pc' = Goto(w, AfterPair(l))
              /\ UNCHANGED <<gridfs, task>>
           \/ /\ genlog' = sent("non200")
              /\ faults + 2 <= MaxFaults
              /\ faults' = faults + 2
              /\ pc' = Goto(w, "inf_log_error")
              /\ UNCHANGED <<jobs, gridfs, loc, task>>
           \/ /\ genlog' = sent("error")
              /\ Fault
              /\ pc' = Goto(w, "inf_log_error")
              /\ UNCHANGED <<jobs, gridfs, loc, task>>
        /\ UNCHANGED <<queue, upload, analysis, taken, disk, encoded>>

\* except Exception inside the loop: logged, then the next pair
InfLogError(w) ==
    /\ pc[w] = "inf_log_error"
    /\ \/ /\ jobs' = log(task[w], "Error calling Base Model")
          /\ StepWith(w, AfterPair(loc[w]), [loc[w] EXCEPT !.i = @ + 1])
       \/ /\ Uncaught(w)
          /\ UNCHANGED jobs
    /\ UNCHANGED <<queue, gridfs, upload, analysis, taken, disk, genlog, encoded>>

\* an update that gives the job up when no pair produced a frame
InferredUnlessEmpty(doc, generated_frames) ==
    IF generated_frames = <<>>
    THEN [doc EXCEPT !.status = "failed", !.has_generated = TRUE]
    ELSE [doc EXCEPT !.status = "inferred", !.has_generated = TRUE,
                     !.generated_frames = generated_frames]

\* the update that stores the generated frames and marks the job inferred
Inferred(doc, generated_frames) ==
    [doc EXCEPT !.status = "inferred", !.has_generated = TRUE,
                !.generated_frames = generated_frames]

InfUpdate(w) ==
    /\ pc[w] = "inf_update"
    /\ \/ /\ jobs' = UpdateJob(task[w], Inferred(jobs[task[w]], loc[w].generated_frames))
          /\ Step(w, "inf_push")
       \/ /\ Uncaught(w)
          /\ UNCHANGED jobs
    /\ UNCHANGED <<queue, gridfs, upload, analysis, taken, disk, genlog, encoded>>

InfPush(w) ==
    /\ pc[w] = "inf_push"
    /\ \/ /\ queue' = rpush(QUEUE_POSTPROCESS, task[w])
          /\ Step(w, "inf_log_done")
       \/ /\ Uncaught(w)
          /\ UNCHANGED queue
    /\ UNCHANGED <<jobs, gridfs, upload, analysis, taken, disk, genlog, encoded>>

InfLogDone(w) ==
    /\ pc[w] = "inf_log_done"
    /\ \/ /\ jobs' = log(task[w], "Finished Inference -> Pushed to Postprocess")
          /\ Return(w)
       \/ /\ Uncaught(w)
          /\ UNCHANGED jobs
    /\ UNCHANGED <<queue, gridfs, upload, analysis, taken, disk, genlog, encoded>>

\* the handler on a job that has its manifest
handle_inference(w) ==
    \/ InfStart(w) \/ InfFetch(w) \/ InfLogLimit(w)
    \/ InfPair(w) \/ InfLogError(w) \/ InfUpdate(w) \/ InfPush(w) \/ InfLogDone(w)

\* ------------------------------------------------------ handle_postprocess
\* manifest fps, else the default
OriginalFps(job) ==
    IF job.manifest.present THEN job.manifest.fps ELSE <<DefaultFps, 1>>

\* the concatenation left unsorted
Concatenated(original_frames, generated_frames) == original_frames \o generated_frames

\* original_frames + generated_frames, sorted by index
AllFrames(original_frames, generated_frames) ==
    SortByIndex(original_frames \o generated_frames)

\* the ratio the wrong way round: original_fps * (len(original_frames) / len(all_frames))
InverseFps(original_fps, all_frames, original_frames) ==
    IF Len(original_frames) > 0
    THEN <<original_fps[1] * Len(original_frames), original_fps[2] * Len(all_frames)>>
    ELSE original_fps

\* step 4: original_fps * (len(all_frames) / len(original_frames))
TargetFps(original_fps, all_frames, original_frames) ==
    IF Len(original_frames) > 0
    THEN <<original_fps[1] * Len(all_frames), original_fps[2] * Len(original_frames)>>
    ELSE original_fps

PostStart(w) ==
    /\ pc[w] = "post_start"
    /\ \/ /\ jobs' = log(task[w], "Started Postprocessing")
          /\ Step(w, "post_fetch")
       \/ /\ Uncaught(w)
          /\ UNCHANGED jobs
    /\ UNCHANGED <<queue, gridfs, upload, analysis, taken, disk, genlog, encoded>>

\* steps 1-2: a fresh reconstruct dir, then the job document and its frames
PostFetch(w) ==
    LET j == task[w]
        job == jobs[j]
        original_frames == job.manifest.gridfs_frames
    IN  /\ pc[w] = "post_fetch"
        /\ disk' = [disk EXCEPT ![j].reconstruct = TRUE, ![j].files = {}]
        /\ \/ Uncaught(w)
           \/ /\ ~job.exists
              /\ Step(w, "post_not_found")
           \/ /\ job.exists
              /\ StepWith(w, "post_log_frames",
                    [loc[w] EXCEPT !.original_frames = original_frames,
                                   !.generated_frames = job.generated_frames,
                                   !.all_frames = AllFrames(original_frames, job.generated_frames),
                                   !.fps = OriginalFps(job)])
        /\ UNCHANGED <<jobs, queue, gridfs, upload, analysis, taken, genlog, encoded>>

\* the early return when the job document is gone
PostNotFound(w) ==
    /\ pc[w] = "post_not_found"
    /\ \/ /\ jobs' = log(task[w], "Postprocessing Failed: Job not found")
          /\ Return(w)
       \/ /\ Uncaught(w)
          /\ UNCHANGED jobs
    /\ UNCHANGED <<queue, gridfs, upload, analysis, taken, disk, genlog, encoded>>

PostLogFrames(w) ==
    /\ pc[w] = "post_log_frames"
    /\ \/ /\ jobs' = log(task[w], "Reconstructing video")
          /\ Step(w, IF Len(loc[w].all_frames) > 0 THEN "post_download" ELSE "post_fps")
       \/ /\ Uncaught(w)
          /\ UNCHANGED jobs
    /\ UNCHANGED <<queue, gridfs, upload, analysis, taken, disk, genlog, encoded>>

\* the statement after frame i of the download loop
AfterFrame(l) ==
    IF l.i + 1 < Len(l.all_frames) THEN "post_download" ELSE "post_fps"

\* the file a resolved frame is saved as: frame_{i:06d}.png, i from enumerate
SavePath(i) == i

\* step 3, one frame: fs.get and the write into the reconstruct dir
PostDownload(w) ==
    LET j == task[w]
        l == loc[w]
        frame == l.all_frames[l.i + 1]
    IN  /\ pc[w] = "post_download"
        /\ \/ /\ frame.file_id \in gridfs
              /\ disk' = [disk EXCEPT ![j].files = @ \cup {SavePath(l.i)}]
              /\ StepWith(w, AfterFrame(l), [l EXCEPT !.i = @ + 1])
           \/ /\ frame.file_id \notin gridfs
              /\ Step(w, "post_log_skip")
              /\ UNCHANGED disk
           \/ /\ Fault
              /\ pc' = Goto(w, "post_log_skip")
              /\ UNCHANGED <<disk, loc, task>>
        /\ UNCHANGED <<jobs, queue, gridfs, upload, analysis, taken, genlog, encoded>>

\* except Exception inside the loop: logged, the frame skipped
PostLogSkip(w) ==
    /\ pc[w] = "post_log_skip"
    /\ \/ /\ jobs' = log(task[w], "Error downloading frame")
          /\ StepWith(w, AfterFrame(loc[w]), [loc[w] EXCEPT !.i = @ + 1])
       \/ /\ Uncaught(w)
          /\ UNCHANGED jobs
    /\ UNCHANGED <<queue, gridfs, upload, analysis, taken, disk, genlog, encoded>>

PostFps(w) ==
    LET l == loc[w]
    IN  /\ pc[w] = "post_fps"
        /\ \/ /\ jobs' = log(task[w], "Target FPS")
              /\ StepWith(w, "post_encode",
                    [l EXCEPT !.target_fps = TargetFps(l.fps, l.all_frames, l.original_frames)])
           \/ /\ Uncaught(w)
              /\ UNCHANGED jobs
        /\ UNCHANGED <<queue, gridfs, upload, analysis, taken, disk, genlog, encoded>>

\* the encoder reads frame_%06d.png from the first number it finds in 0..4, and
\* exits with an error when there is none
HasInput(d) == \E i \in 0..4 : SavePath(i) \in d.files

\* the files the encoder reads for the pattern frame_%06d.png: from the first
\* number it finds, the consecutive numbers up to the first one missing
InputRun(files) ==
    IF \E i \in 0..4 : SavePath(i) \in files
    THEN LET first == CHOOSE i \in 0..4 :
                        /\ SavePath(i) \in files
                        /\ \A k \in 0..(i - 1) : SavePath(k) \notin files
         IN  {n \in files : \A k \in first..n : SavePath(k) \in files}
    ELSE {}

\* step 5: the encoder run over the reconstruct dir (files), of which it reads
\* the run input, muxing the audio file if there
Encode(d, target_fps) ==
    [done |-> TRUE, framerate |-> target_fps, files |-> d.files,
     input |-> InputRun(d.files), audio |-> d.audio]

PostEncode(w) ==
    LET j == task[w]
    IN  /\ pc[w] = "post_encode"
        /\ \/ /\ ~HasInput(disk[j])
              /\ StepWith(w, "post_fail_log", [loc[w] EXCEPT !.err = <<"stderr", "encode">>])
              /\ UNCHANGED <<jobs, encoded>>
           \/ /\ Raise(w, <<"stderr", "encode">>, "post_fail_log")
              /\ UNCHANGED <<jobs, encoded>>
           \/ /\ HasInput(disk[j])
              /\ Raise(w, <<"exception", "log">>, "post_fail_log")
              /\ encoded' = [encoded EXCEPT ![j] = Encode(disk[j], loc[w].target_fps)]
              /\ UNCHANGED jobs
           \/ /\ HasInput(disk[j])
              /\ encoded' = [encoded EXCEPT ![j] = Encode(disk[j], loc[w].target_fps)]
              /\ jobs' = log(j, "FFmpeg encoding complete")
              /\ Step(w, "post_upload")
        /\ UNCHANGED <<queue, gridfs, upload, analysis, taken, disk, genlog>>

\* step 6: the final video put into GridFS
PostUpload(w) ==
    LET video_id == <<"final", task[w], 0>>
    IN  /\ pc[w] = "post_upload"
        /\ \/ /\ Raise(w, <<"exception", "storage">>, "post_fail_log")
              /\ UNCHANGED gridfs
           \/ /\ gridfs' = gridfs \cup {video_id}
              /\ StepWith(w, "post_update", [loc[w] EXCEPT !.video_id = video_id])
        /\ UNCHANGED <<jobs, queue, upload, analysis, taken, disk, genlog, encoded>>

\* an update that marks the job completed and leaves out the artifact reference
CompletedWithoutArtifact(doc, video_id, target_fps) ==
    [doc EXCEPT !.status = "completed", !.output_fps = target_fps,
                !.completed_at = TRUE, !.history = Append(@, "completed")]

\* step 7: the update that marks the job completed
Completed(doc, video_id, target_fps) ==
    [doc EXCEPT !.status = "completed", !.final_video_id = video_id,
                !.output_fps = target_fps, !.completed_at = TRUE,
                !.history = Append(@, "completed")]

PostUpdate(w) ==
    /\ pc[w] = "post_update"
    /\ \/ /\ Raise(w, <<"exception", "store">>, "post_fail_log")
          /\ UNCHANGED jobs
       \/ /\ jobs' = UpdateJob(task[w],
                        Completed(jobs[task[w]], loc[w].video_id, loc[w].target_fps))
          /\ Step(w, "post_log_done")
    /\ UNCHANGED <<queue, gridfs, upload, analysis, taken, disk, genlog, encoded>>

PostLogDone(w) ==
    /\ pc[w] = "post_log_done"
    /\ \/ /\ Raise(w, <<"exception", "log">>, "post_fail_log")
          /\ UNCHANGED jobs
       \/ /\ jobs' = log(task[w], "Job Completed!")
          /\ Step(w, "post_cleanup")
    /\ UNCHANGED <<queue, gridfs, upload, analysis, taken, disk, genlog, encoded>>

\* an except branch that stores an empty error text
NoDiagnostic(e) == NoError

\* the error text of the except branches
ReassemblyError(e) ==
    IF e[1] = "stderr" THEN <<"Reassembly failed: stderr", e[2]>> ELSE e

PostFailLog(w) ==
    /\ pc[w] = "post_fail_log"
    /\ \/ /\ Uncaught(w)
          /\ UNCHANGED jobs
       \/ /\ jobs' = log(task[w],
                        ErrorLabel(loc[w].err, "FFmpeg Reassembly Error", "Reassembly Error"))
          /\ Step(w, "post_fail_update")
    /\ UNCHANGED <<queue, gridfs, upload, analysis, taken, disk, genlog, encoded>>

PostFailUpdate(w) ==
    /\ pc[w] = "post_fail_update"
    /\ \/ /\ Uncaught(w)
          /\ UNCHANGED jobs
       \/ /\ jobs' = UpdateJob(task[w], Failed(jobs[task[w]], ReassemblyError(loc[w].err)))
          /\ Step(w, "post_cleanup")
    /\ UNCHANGED <<queue, gridfs, upload, analysis, taken, disk, genlog, encoded>>

\* shutil.rmtree(reconstruct_dir), errors ignored
Cleanup(d) == [d EXCEPT !.reconstruct = FALSE, !.files = {}]

PostCleanup(w) ==
    /\ pc[w] = "post_cleanup"
    /\ disk' = [disk EXCEPT ![task[w]] = Cleanup(@)]
    /\ Return(w)
    /\ UNCHANGED <<jobs, queue, gridfs, upload, analysis, taken, genlog, encoded>>

\* the handler on a job whose document exists
handle_postprocess(w) ==
    \/ PostStart(w) \/ PostFetch(w) \/ PostLogFrames(w)
    \/ PostDownload(w) \/ PostLogSkip(w) \/ PostFps(w) \/ PostEncode(w)
    \/ PostUpload(w) \/ PostUpdate(w) \/ PostLogDone(w)
    \/ PostFailLog(w) \/ PostFailUpdate(w) \/ PostCleanup(w)

\* ---------------------------------------------------------- specification
\* nothing uploaded yet, one worker process running
Init ==
    /\ jobs = [j \in Jobs |-> NoJob]
    /\ queue = [q \in Queues |-> <<>>]
    /\ gridfs = {}
    /\ upload = [j \in Jobs |-> NoUpload]
    /\ disk = [j \in Jobs |-> NoScratch]
    /\ genlog = [j \in Jobs |-> <<>>]
    /\ encoded = [j \in Jobs |-> NoEncode]
    /\ pc = [w \in Workers |-> IF w = 1 THEN "pop_pre" ELSE "stopped"]
    /\ task = [w \in Workers |-> 0]
    /\ loc = [w \in Workers |-> NoLocals]
    /\ faults = 0
    /\ analysis = NoCall
    /\ taken = NoneTaken

Worker(w) ==
    worker_loop(w) \/ handle_preprocess(w) \/ handle_inference(w) \/ handle_postprocess(w)

Next ==
    \/ \E j \in Jobs : upload_video(j)
    \/ \E w \in Workers : Worker(w)

Spec == Init /\ [][Next]_vars

\* the videos of the single-upload runs: the sample, and long ones with more
\* adjacent pairs than the pair limit
LongVideos ==
    [present : {TRUE}, frames : {LongFrames}, rate : {<<30, 1>>, <<25, 0>>}, audio : BOOLEAN]

\* one video uploaded and its item queued, one worker process running
InitQueued ==
    /\ jobs = [j \in Jobs |-> IF j = 1 THEN JobDoc ELSE NoJob]
    /\ queue = [q \in Queues |-> IF q = QUEUE_PREPROCESS THEN <<1>> ELSE <<>>]
    /\ gridfs = {}
    /\ \E v \in LongVideos \cup VideoFiles(0..MaxFrames) :
         upload = [j \in Jobs |-> IF j = 1 THEN v ELSE NoUpload]
    /\ disk = [j \in Jobs |-> NoScratch]
    /\ genlog = [j \in Jobs |-> <<>>]
    /\ encoded = [j \in Jobs |-> NoEncode]
    /\ pc = [w \in Workers |-> IF w = 1 THEN "pop_pre" ELSE "stopped"]
    /\ task = [w \in Workers |-> 0]
    /\ loc = [w \in Workers |-> NoLocals]
    /\ faults = 0
    /\ analysis = NoCall
    /\ taken = NoneTaken

NextQueued == \E w \in Workers : Worker(w)

SpecQueued == InitQueued /\ [][NextQueued]_vars

\* a worker started on a store and queues it did not fill: one item for job 1 in
\* one of the lists, its document absent or without a manifest
InitOrphan ==
    /\ jobs \in [Jobs -> {JobDoc, NoJob}]
    /\ \E q \in Queues : queue = [r \in Queues |-> IF r = q THEN <<1>> ELSE <<>>]
    /\ gridfs = {}
    /\ \E v \in VideoFiles(0..MaxFrames) :
         upload = [j \in Jobs |-> IF j = 1 THEN v ELSE NoUpload]
    /\ disk = [j \in Jobs |-> NoScratch]
    /\ genlog = [j \in Jobs |-> <<>>]
    /\ encoded = [j \in Jobs |-> NoEncode]
    /\ pc = [w \in Workers |-> IF w = 1 THEN "pop_pre" ELSE "stopped"]
    /\ task = [w \in Workers |-> 0]
    /\ loc = [w \in Workers |-> NoLocals]
    /\ faults = 0
    /\ analysis = NoCall
    /\ taken = NoneTaken

NextOrphan == \E w \in Workers : Worker(w) \/ InfMissing(w) \/ PostNotFound(w)

SpecOrphan == InitOrphan /\ [][NextOrphan]_vars

\* the worker process is killed inside a handler: nothing is put back, the
\* item it had popped is gone with it
Crash(w) ==
    /\ pc[w] \notin {"pop_pre", "pop_inf", "pop_post", "sleep", "stopped", "dead", "crashed"}
    /\ Fault
    /\ pc' = Goto(w, "crashed")
    /\ loc' = [loc EXCEPT ![w] = NoLocals]
    /\ UNCHANGED <<jobs, queue, gridfs, upload, disk, genlog, encoded, task, analysis, taken>>

\* one video uploaded and its item queued, every worker process running
\* against the same lists, one failure or crash left
InitWorkers ==
    /\ jobs = [j \in Jobs |-> IF j = 1 THEN JobDoc ELSE NoJob]
    /\ queue = [q \in Queues |-> IF q = QUEUE_PREPROCESS THEN <<1>> ELSE <<>>]
    /\ gridfs = {}
    /\ \E v \in VideoFiles(0..MaxFrames) :
         upload = [j \in Jobs |-> IF j = 1 THEN v ELSE NoUpload]
    /\ disk = [j \in Jobs |-> NoScratch]
    /\ genlog = [j \in Jobs |-> <<>>]
    /\ encoded = [j \in Jobs |-> NoEncode]
    /\ pc = [w \in Workers |-> "pop_pre"]
    /\ task = [w \in Workers |-> 0]
    /\ loc = [w \in Workers |-> NoLocals]
    /\ faults = MaxFaults - 1
    /\ analysis = NoCall
    /\ taken = NoneTaken

NextWorkers == \E w \in Workers : Worker(w) \/ Crash(w)

SpecWorkers == InitWorkers /\ [][NextWorkers]_vars

\* ------------------------------------------------------------- properties
Chain ==
    <<"queued", "preprocessing", "preprocessed", "inferring", "inferred",
      "postprocessing", "completed">>

ChainStep(a, b) == \E k \in 1..(Len(Chain) - 1) : Chain[k] = a /\ Chain[k + 1] = b

\* worker w took the step
Stepped(w) == pc'[w] # pc[w] \/ loc'[w] # loc[w]

PreLabels ==
    {"pre_start", "pre_extract", "pre_audio", "pre_analyze", "pre_upload", "pre_update",
     "pre_push", "pre_log_done", "pre_fail_log", "pre_fail_update"}

InfLabels ==
    {"inf_start", "inf_fetch", "inf_missing", "inf_log_limit", "inf_pair",
     "inf_log_error", "inf_update", "inf_push", "inf_log_done"}

PostLabels ==
    {"post_start", "post_fetch", "post_not_found", "post_log_frames", "post_download",
     "post_log_skip", "post_fps", "post_encode", "post_upload", "post_update",
     "post_log_done", "post_fail_log", "post_fail_update", "post_cleanup"}

\* C1: every change of a job's status is one step along the chain queued ->
\* preprocessing -> preprocessed -> inferring -> inferred -> postprocessing ->
\* completed, or a move to failed from a non-terminal status.
C1_StatusFollowsChain ==
    [][\A j \in Jobs :
         (jobs[j].exists /\ jobs'[j].status # jobs[j].status)
         => \/ ChainStep(jobs[j].status, jobs'[j].status)
            \/ /\ jobs'[j].status = "failed"
               /\ jobs[j].status \notin {"completed", "failed"}]_vars

\* C2: failed is absorbing: a job whose status is failed keeps that status in
\* every later step.
C2_FailedIsAbsorbing ==
    [][\A j \in Jobs : jobs[j].status = "failed" => jobs'[j].status = "failed"]_vars

\* the status a stage's update expects to find
SourceStatus(label) ==
    CASE label = "pre_update" -> "queued"
      [] label = "inf_update" -> "preprocessed"
      [] label = "post_update" -> "inferred"

\* C3: a stage handler whose job is not in the stage's source status when it
\* comes to its update (queued for preprocess, preprocessed for inference,
\* inferred for postprocess) leaves the job's status, manifest, generated frame
\* set and final-artifact reference unchanged.
C3_WrongSourceStatusIsNoOp ==
    [][\A w \in Workers :
         (/\ pc[w] \in {"pre_update", "inf_update", "post_update"}
          /\ Stepped(w)
          /\ jobs[task[w]].status # SourceStatus(pc[w]))
         => /\ jobs'[task[w]].status = jobs[task[w]].status
            /\ jobs'[task[w]].manifest = jobs[task[w]].manifest
            /\ jobs'[task[w]].generated_frames = jobs[task[w]].generated_frames
            /\ jobs'[task[w]].final_video_id = jobs[task[w]].final_video_id]_vars

\* the requests of job j the model service answered with a frame
OkRequests(j) == SelectSeq(genlog[j], LAMBDA r : r.outcome = "ok")

\* the requests of job j that failed: a non-200 response or a transport error
FailedRequests(j) == SelectSeq(genlog[j], LAMBDA r : r.outcome # "ok")

\* C4: whatever the outcomes of the per-pair generation requests, handle_inference
\* never marks the job failed and is never ended by a pair: its update stores
\* exactly the frames of the pairs that succeeded and sets inferred, one
\* postprocess item is queued, and the postprocess update then sets completed;
\* as long as generation requests are all that failed, a job whose video has
\* frames to encode is not failed and no worker is ended.
C4_PairFailureIsNotFatal ==
    /\ [](\A j \in Jobs :
            (upload[j].frames > 0 /\ faults = Len(FailedRequests(j)))
            => /\ jobs[j].status # "failed"
               /\ \A w \in Workers : pc[w] # "dead")
    /\ [][\A w \in Workers :
            LET j == task[w]
                ok == OkRequests(j)
                stored == jobs'[j].generated_frames
            IN  /\ (pc[w] \in InfLabels /\ Stepped(w))
                   => /\ jobs'[j].status # jobs[j].status
                         => pc[w] = "inf_update" /\ jobs'[j].status = "inferred"
                      /\ pc[w] = "inf_pair" => pc'[w] \in {"inf_pair", "inf_log_error", "inf_update"}
                      /\ (pc[w] = "inf_update" /\ pc'[w] = "inf_push")
                         => /\ jobs'[j].status = "inferred"
                            /\ Len(stored) = Len(ok)
                            /\ \A k \in 1..Len(ok) :
                                 /\ stored[k].parent_start = ok[k].frame_start_id
                                 /\ stored[k].parent_end = ok[k].frame_end_id
                      /\ queue'[QUEUE_POSTPROCESS] # queue[QUEUE_POSTPROCESS]
                         => /\ pc[w] = "inf_push"
                            /\ queue'[QUEUE_POSTPROCESS] = Append(queue[QUEUE_POSTPROCESS], j)
                      /\ (pc[w] = "inf_push" /\ pc'[w] = "inf_log_done")
                         => queue'[QUEUE_POSTPROCESS] = Append(queue[QUEUE_POSTPROCESS], j)
                /\ (pc[w] = "post_update" /\ pc'[w] = "post_log_done")
                   => /\ jobs'[j].status = "completed"
                      /\ jobs'[j].generated_frames = jobs[j].generated_frames]_vars

\* C4 witness: a job completed after 4 of its 5 pairs succeeded
C4_FourOfFiveCompleted ==
    \E j \in Jobs :
        /\ jobs[j].status = "completed"
        /\ Len(genlog[j]) = limit
        /\ Len(FailedRequests(j)) = 1
        /\ Len(jobs[j].generated_frames) = limit - 1

\* C5: the generation requests of a job are, in order and once each, those for
\* the adjacent pairs (i, i+1), i = 0 .. min(N-1, limit)-1, of its N original
\* frames, all of them issued by the time the loop is left; every generated
\* frame has index i + 0.5 and the content ids of originals i and i+1 of a pair
\* whose request succeeded as parents, at most one per pair.
C5_RequestsAreAdjacentPairs ==
    \A j \in Jobs :
        LET frames == jobs[j].manifest.gridfs_frames
            N == Len(frames)
            pairs == IF N - 1 < limit THEN N - 1 ELSE limit
            OfPair(g, k) ==
                /\ genlog[j][k].outcome = "ok"
                /\ g.index = 2 * (k - 1) + 1
                /\ g.parent_start = frames[k].file_id
                /\ g.parent_end = frames[k + 1].file_id
            Sound(gen) ==
                /\ \A a \in 1..Len(gen) : \E k \in 1..Len(genlog[j]) : OfPair(gen[a], k)
                /\ \A a, b \in 1..Len(gen) : a # b => gen[a].index # gen[b].index
        IN  /\ Len(genlog[j]) > 0 => Len(genlog[j]) <= pairs
            /\ \A k \in 1..Len(genlog[j]) :
                 /\ frames[k].index = 2 * (k - 1)
                 /\ frames[k + 1].index = 2 * k
                 /\ genlog[j][k].job_id = j
                 /\ genlog[j][k].frame_start_id = frames[k].file_id
                 /\ genlog[j][k].frame_end_id = frames[k + 1].file_id
            /\ Sound(jobs[j].generated_frames)
            /\ \A w \in Workers :
                 (task[w] = j /\ pc[w] \in InfLabels)
                 => /\ Sound(loc[w].generated_frames)
                    /\ pc[w] \in {"inf_update", "inf_push", "inf_log_done"}
                       => Len(genlog[j]) = (IF pairs > 0 THEN pairs ELSE 0)

\* C5 witness: a video with more adjacent pairs than the limit, its requests
\* all sent and the frames of the successful ones stored
C5_LimitReached ==
    \E j \in Jobs :
        /\ Len(jobs[j].manifest.gridfs_frames) = LongFrames
        /\ Len(genlog[j]) = limit
        /\ jobs[j].status = "inferred"
        /\ Len(jobs[j].generated_frames) = limit

StrictlyIncreasing(frames) ==
    \A k \in 1..(Len(frames) - 1) : frames[k].index < frames[k + 1].index

\* C6: within a job the indices of the original frames of the manifest and of
\* the generated frames are pairwise distinct, and the merged sequence
\* handle_postprocess builds holds exactly these frames, strictly increasing
\* by index, each generated frame i+0.5 directly between originals i and i+1.
C6_MergedOrderStrictlyIncreasing ==
    \A j \in Jobs :
        LET every == jobs[j].manifest.gridfs_frames \o jobs[j].generated_frames
        IN  /\ \A a, b \in 1..Len(every) : a # b => every[a].index # every[b].index
            /\ \A w \in Workers :
                 (task[w] = j /\ pc[w] \in PostLabels \ {"post_start", "post_fetch", "post_not_found"})
                 => LET merged == loc[w].all_frames
                    IN  /\ Len(merged) = Len(every)
                        /\ {merged[k] : k \in 1..Len(merged)} = {every[k] : k \in 1..Len(every)}
                        /\ StrictlyIncreasing(merged)
                        /\ \A k \in 1..Len(merged) :
                             merged[k].index % 2 = 1
                             => /\ 1 < k /\ k < Len(merged)
                                /\ merged[k - 1].index = merged[k].index - 1
                                /\ merged[k + 1].index = merged[k].index + 1

\* C6 witness: a merged sequence with generated frames among the originals,
\* built and about to be encoded
C6_MergedWithGenerated ==
    \E w \in Workers :
        /\ pc[w] = "post_encode"
        /\ Len(loc[w].generated_frames) >= 2
        /\ Len(loc[w].all_frames) = Len(loc[w].original_frames) + Len(loc[w].generated_frames)

\* source_fps * (R / O), or source_fps when O = 0
ResolvedFps(source_fps, R, O) ==
    IF O = 0 THEN source_fps ELSE <<source_fps[1] * R, source_fps[2] * O>>

\* C7: the frame rate handle_postprocess encodes at and records is
\* source_fps * (R / O), O the number of original frames and R the number of
\* frames actually resolved from the repository, and source_fps when O = 0.
C7_FpsCountsResolvedFrames ==
    \A j \in Jobs :
        encoded[j].done
        => LET target == ResolvedFps(OriginalFps(jobs[j]),
                                     Cardinality(encoded[j].files),
                                     Len(jobs[j].manifest.gridfs_frames))
           IN  /\ RatEq(encoded[j].framerate, target)
               /\ jobs[j].status = "completed" => RatEq(jobs[j].output_fps, target)

\* the video of the end-to-end example: 10 frames at 30 fps, no audio
EndToEndVideo == [present |-> TRUE, frames |-> 10, rate |-> <<30, 1>>, audio |-> FALSE]

\* the run of the end-to-end example has completed: nothing failed
EndToEndDone(j) ==
    /\ upload[j] = EndToEndVideo
    /\ faults = 0
    /\ jobs[j].status = "completed"

\* C8 as stated: the 10-frame 30 fps video without audio, every request
\* succeeding, gets a generated frame for all 9 adjacent pairs, is rebuilt from
\* 19 frames and completes with output_fps = 30 * 19/10 = 57.
C8_NineteenFramesAt57 ==
    \A j \in Jobs :
        EndToEndDone(j)
        => /\ Len(jobs[j].generated_frames) = 9
           /\ Cardinality(encoded[j].files) = 19
           /\ RatEq(jobs[j].output_fps, <<57, 1>>)

\* C8 amended: the 10-frame 30 fps video without audio, every request
\* succeeding, gets a generated frame for the first 5 adjacent pairs (the pair
\* limit), is rebuilt from 15 frames without audio and completes with
\* output_fps = 30 * 15/10 = 45.
C8_FifteenFramesAt45 ==
    \A j \in Jobs :
        EndToEndDone(j)
        => /\ Len(genlog[j]) = 5
           /\ Len(jobs[j].generated_frames) = 5
           /\ \A k \in 1..5 : jobs[j].generated_frames[k].index = 2 * (k - 1) + 1
           /\ encoded[j].done
           /\ Cardinality(encoded[j].files) = 15
           /\ ~encoded[j].audio
           /\ RatEq(encoded[j].framerate, <<45, 1>>)
           /\ RatEq(jobs[j].output_fps, <<45, 1>>)
           /\ jobs[j].final_video_id \in gridfs

\* C8 witness: the end-to-end run completed
C8_EndToEndCompleted == \E j \in Jobs : EndToEndDone(j) /\ jobs[j].completed_at

\* the steps of handle_preprocess the claim names
ExtractionSteps == {"probe", "extract", "audio", "analysis", "storage"}

\* C9: a failure of probing, frame extraction, analysis or frame storage takes
\* handle_preprocess to its except branch with no manifest written, and the
\* handler then returns with the job failed, the diagnostic as its error and no
\* manifest; a manifest is only ever written in the step that changes the job
\* from queued to preprocessed, with its history entry.
C9_NoManifestOnFailure ==
    /\ [](\A j \in Jobs :
            jobs[j].manifest.present
            => \E k \in 1..Len(jobs[j].history) :
                 jobs[j].history[k] = "frames_extracted_and_analyzed")
    /\ [][/\ \A j \in Jobs :
               jobs'[j].manifest # jobs[j].manifest
               => /\ jobs[j].status = "queued"
                  /\ jobs'[j].status = "preprocessed"
                  /\ jobs'[j].manifest.present
                  /\ \E w \in Workers : task[w] = j /\ pc[w] = "pre_update"
          /\ \A w \in Workers :
               LET j == task[w]
               IN  /\ (pc[w] \in PreLabels /\ loc'[w].err # loc[w].err
                         /\ loc'[w].err[2] \in ExtractionSteps)
                      => /\ pc'[w] = "pre_fail_log"
                         /\ ~jobs'[j].manifest.present
                   /\ (pc[w] \in PreLabels /\ pc'[w] = "pop_pre"
                         /\ loc[w].err[2] \in ExtractionSteps)
                      => /\ jobs'[j].status = "failed"
                         /\ jobs'[j].error = loc[w].err
                         /\ ~jobs'[j].manifest.present]_vars

\* C9 witness: a job failed by one of these steps, each with its diagnostic
C9_FailedWithoutManifest ==
    \E j \in Jobs :
        /\ jobs[j].status = "failed"
        /\ jobs[j].error \in {<<"stderr", "probe">>, <<"stderr", "extract">>,
                              <<"stderr", "audio">>, <<"exception", "analysis">>,
                              <<"exception", "storage">>}
        /\ ~jobs[j].manifest.present
        /\ \A w \in Workers : task[w] # j

\* C10: when handle_inference finds no manifest (or no frame list in it), the
\* handler returns with the job failed, a diagnostic error and a history entry.
C10_MissingManifestFailsJob ==
    [][\A w \in Workers :
         (pc[w] = "inf_missing" /\ pc'[w] = "pop_pre" /\ jobs[task[w]].exists)
         => /\ jobs'[task[w]].status = "failed"
            /\ jobs'[task[w]].error # NoError
            /\ Len(jobs'[task[w]].history) > Len(jobs[task[w]].history)]_vars

\* the statements of worker_loop itself
LoopLabels == {"pop_pre", "pop_inf", "pop_post", "sleep"}

HandlerLabels == PreLabels \cup InfLabels \cup PostLabels

\* the list a handler's items come from
StageQueue(label) ==
    CASE label \in PreLabels -> QUEUE_PREPROCESS
      [] label \in InfLabels -> QUEUE_INFERENCE
      [] label \in PostLabels -> QUEUE_POSTPROCESS

\* C11: per iteration of worker_loop a worker takes at most one item, trying
\* the lists in the order preprocess, inference, postprocess: it goes on to
\* the inference list only from a preprocess list found empty, to the
\* postprocess list only from an inference list found empty, sleeps only
\* after finding the postprocess list empty too, enters a handler only with the
\* head of the list it has just popped, and starts again from the preprocess
\* list after a handler or a sleep.
C11_OneItemInFixedOrder ==
    [][\A w \in Workers :
         pc'[w] # pc[w]
         => /\ pc'[w] = "pop_inf" => pc[w] = "pop_pre" /\ queue[QUEUE_PREPROCESS] = <<>>
            /\ pc'[w] = "pop_post" => pc[w] = "pop_inf" /\ queue[QUEUE_INFERENCE] = <<>>
            /\ pc'[w] = "sleep" => pc[w] = "pop_post" /\ queue[QUEUE_POSTPROCESS] = <<>>
            /\ pc'[w] = "pre_start" => pc[w] = "pop_pre"
            /\ pc'[w] = "inf_start" => pc[w] = "pop_inf"
            /\ pc'[w] = "post_start" => pc[w] = "pop_post"
            /\ pc'[w] \in {"pre_start", "inf_start", "post_start"}
               => LET q == StageQueue(pc'[w])
                  IN  /\ queue[q] # <<>>
                      /\ task[w] = 0
                      /\ task'[w] = Head(queue[q])
                      /\ queue' = [queue EXCEPT ![q] = Tail(@)]
            /\ pc[w] \in LoopLabels
               => /\ pc'[w] \in LoopLabels \cup {"pre_start", "inf_start", "post_start"}
                  /\ pc'[w] \in LoopLabels => task'[w] = 0 /\ queue' = queue
            /\ pc[w] = "sleep" => pc'[w] = "pop_pre"
            /\ (pc[w] \in HandlerLabels /\ pc'[w] \in LoopLabels) => pc'[w] = "pop_pre"]_vars

\* C11 witness: one worker has taken a postprocess item, having found the two
\* earlier lists empty, while another has found all three empty and sleeps
C11_TookLastWhileOtherSleeps ==
    \E w, v \in Workers :
        /\ pc[w] = "post_start"
        /\ task[w] # 0
        /\ pc[v] = "sleep"

\* how often job j is in list q
InQueue(q, j) == Cardinality({k \in 1..Len(queue[q]) : queue[q][k] = j})

\* C12: with several workers on the same lists an item is taken by exactly one
\* worker: a pop removes the head and hands it to the popping worker only, an
\* item of a job is in a list or was taken from it once, never both, and no
\* job has any of its three handlers entered more than once.
C12_EachItemTakenOnce ==
    /\ [](\A j \in Jobs : \A q \in Queues :
            /\ taken[q][j] <= 1
            /\ InQueue(q, j) + taken[q][j] <= 1
            /\ Cardinality({w \in Workers : task[w] = j /\ pc[w] \in HandlerLabels
                                            /\ StageQueue(pc[w]) = q}) <= taken[q][j])
    /\ [][\A q \in Queues :
            Len(queue'[q]) < Len(queue[q])
            => /\ queue'[q] = Tail(queue[q])
               /\ taken' = [taken EXCEPT ![q][Head(queue[q])] = @ + 1]
               /\ \E w \in Workers :
                    /\ task'[w] = Head(queue[q])
                    /\ pc[w] \in LoopLabels /\ pc'[w] \in HandlerLabels
                    /\ StageQueue(pc'[w]) = q
                    /\ \A v \in Workers \ {w} : task'[v] = task[v] /\ pc'[v] = pc[v]]_vars

\* C12 witness: with every worker running, the job went through its three
\* handlers, each entered once, two of them by different workers
C12_ThreeStagesOnceEach ==
    \E j \in Jobs :
        /\ \A q \in Queues : taken[q][j] = 1
        /\ jobs[j].status = "completed"
        /\ \E w, v \in Workers : w # v /\ pc[w] = "post_cleanup" /\ pc[v] = "sleep"

\* C13: no two workers are ever inside handlers of different stages for the
\* same job: the next stage of a job starts only when every step of the
\* previous stage's handler, its last history write included, is done.
C13_StagesNeverOverlap ==
    \A w, v \in Workers :
        (w # v /\ pc[w] \in HandlerLabels /\ pc[v] \in HandlerLabels /\ task[w] = task[v])
        => StageQueue(pc[w]) = StageQueue(pc[v])

\* C14: once a worker has crashed inside a handler, the job it was handling
\* keeps the non-terminal status it had: no later step changes it, and the
\* item is not put back into any list.
C14_CrashedJobStaysPut ==
    [][\A w \in Workers :
         (pc[w] = "crashed" /\ jobs[task[w]].status \notin {"completed", "failed"})
         => /\ jobs'[task[w]].status = jobs[task[w]].status
            /\ \A q \in Queues : taken[q][task[w]] = 1 => InQueue(q, task[w])' = 0]_vars

\* C15: whenever handle_postprocess returns, on any path (completed, encoding
\* or upload failure, job record not found), the reconstruction workspace of
\* the job is gone.
C15_WorkspaceRemovedOnReturn ==
    [][\A w \in Workers :
         (pc[w] \in PostLabels /\ pc'[w] = "pop_pre")
         => /\ ~disk'[task[w]].reconstruct
            /\ disk'[task[w]].files = {}]_vars

\* --------------------------------------------------- preprocessing module
\* the pipeline at rest while one function of the module is called
AtRest ==
    /\ jobs = [j \in Jobs |-> NoJob]
    /\ queue = [q \in Queues |-> <<>>]
    /\ gridfs = {}
    /\ upload = [j \in Jobs |-> NoUpload]
    /\ disk = [j \in Jobs |-> NoScratch]
    /\ genlog = [j \in Jobs |-> <<>>]
    /\ encoded = [j \in Jobs |-> NoEncode]
    /\ pc = [w \in Workers |-> "stopped"]
    /\ task = [w \in Workers |-> 0]
    /\ loc = [w \in Workers |-> NoLocals]
    /\ faults = 0
    /\ taken = NoneTaken

Max(a, b) == IF a > b THEN a ELSE b

\* the heuristic with its cap left out
UncappedParams(avg_motion_score, fps) ==
    IF avg_motion_score[1] > 5 * avg_motion_score[2]
    THEN [factor |-> 2, mode |-> "conservative", base_motion_score |-> avg_motion_score]
    ELSE IF avg_motion_score[1] > 2 * avg_motion_score[2]
    THEN [factor |-> 4, mode |-> "balanced", base_motion_score |-> avg_motion_score]
    ELSE [factor |-> 8, mode |-> "aggressive", base_motion_score |-> avg_motion_score]

\* determine_interpolation_params: score and fps are rationals <<n, d>>, d > 0;
\* int(240 / fps) is the integer quotient of 240 * d by n
determine_interpolation_params(avg_motion_score, fps) ==
    LET interp_factor ==
            IF avg_motion_score[1] > 5 * avg_motion_score[2] THEN 2
            ELSE IF avg_motion_score[1] > 2 * avg_motion_score[2] THEN 4
            ELSE 8
        mode ==
            IF avg_motion_score[1] > 5 * avg_motion_score[2] THEN "conservative"
            ELSE IF avg_motion_score[1] > 2 * avg_motion_score[2] THEN "balanced"
            ELSE "aggressive"
    IN  [factor |-> IF fps[1] * interp_factor > 240 * fps[2]
                    THEN Max(1, (240 * fps[2]) \div fps[1])
                    ELSE interp_factor,
         mode |-> mode,
         base_motion_score |-> avg_motion_score]

\* the frame rates the function is called with: num / den as handle_preprocess
\* parses them, whole and fractional, below, at and above the cap
FpsSamples ==
    {<<0, 1>>, <<1, 1>>, <<24, 1>>, <<30000, 1001>>, <<30, 1>>, <<50, 1>>, <<60, 1>>,
     <<120, 1>>, <<121, 1>>, <<240, 1>>, <<241, 1>>, <<480, 1>>}

\* the motion scores: 0.0 to MaxScore / 10 in steps of a tenth
ScoreSamples == {<<n, 10>> : n \in 0..MaxScore}

InitParams ==
    /\ AtRest
    /\ \E s \in ScoreSamples : \E f \in FpsSamples :
         analysis = [fn |-> "determine_interpolation_params", done |-> FALSE,
                     avg_motion_score |-> s, fps |-> f,
                     result |-> [factor |-> 0, mode |-> "", base_motion_score |-> s]]

\* the call returns
DetermineParams ==
    /\ analysis.fn = "determine_interpolation_params"
    /\ ~analysis.done
    /\ analysis' = [analysis EXCEPT
                      !.done = TRUE,
                      !.result = determine_interpolation_params(analysis.avg_motion_score,
                                                                analysis.fps)]
    /\ UNCHANGED <<jobs, queue, gridfs, upload, disk, genlog, encoded, pc, task, loc,
                   faults, taken>>

NextParams == DetermineParams

SpecParams == InitParams /\ [][NextParams]_vars

\* a is the integer part of p / q, for p >= 0 and q > 0
IsFloor(a, p, q) == a * q <= p /\ p < (a + 1) * q

\* C16: determine_interpolation_params returns factor 2 / conservative for a
\* score above 5.0, 4 / balanced for a score above 2.0 up to 5.0, 8 / aggressive
\* for a score up to 2.0, and then, only if fps * factor > 240, replaces the
\* factor by max(1, floor(240 / fps)); the cap never raises the factor, leaves
\* the mode as it was, and the factor is an integer >= 1 (score 1.0 at 60 fps
\* gives 4).
C16_PolicyTableThenCap ==
    (analysis.fn = "determine_interpolation_params" /\ analysis.done)
    => LET s == analysis.avg_motion_score
           f == analysis.fps
           r == analysis.result
           base == CASE s[1] * 10 > 50 * s[2] -> 2
                     [] s[1] * 10 <= 50 * s[2] /\ s[1] * 10 > 20 * s[2] -> 4
                     [] s[1] * 10 <= 20 * s[2] -> 8
           mode == CASE base = 2 -> "conservative"
                     [] base = 4 -> "balanced"
                     [] base = 8 -> "aggressive"
       IN  /\ r.mode = mode
           /\ r.factor \in Nat /\ r.factor >= 1
           /\ r.factor <= base
           /\ f[1] * base <= 240 * f[2] => r.factor = base
           /\ f[1] * base > 240 * f[2]
              => \/ r.factor > 1 /\ IsFloor(r.factor, 240 * f[2], f[1])
                 \/ r.factor = 1 /\ 240 * f[2] < 2 * f[1]
           /\ (s = <<10, 10>> /\ f = <<60, 1>>) => r.factor = 4
           /\ (s = <<60, 10>> /\ f = <<30, 1>>) => r.factor = 2
           /\ (s = <<30, 10>> /\ f = <<30, 1>>) => r.factor = 4

\* C16 witness: the call with score 1.0 at 60 fps has returned, capped from 8
C16_CappedExample ==
    /\ analysis.fn = "determine_interpolation_params"
    /\ analysis.done
    /\ analysis.avg_motion_score = <<10, 10>>
    /\ analysis.fps = <<60, 1>>
    /\ analysis.result.factor = 4
    /\ analysis.result.mode = "aggressive"

\* the cut list of detect_scenes after the loop has compared frames 1..i with
\* their predecessors: 0, then every index whose difference is over the
\* threshold, in loop order
RECURSIVE CutsUpTo(_, _)
CutsUpTo(i, over) ==
    IF i = 0 THEN <<0>>
    ELSE IF i \in over THEN Append(CutsUpTo(i - 1, over), i)
    ELSE CutsUpTo(i - 1, over)

\* segments whose end is the next cut itself
OverlappingScenes(total_frames, over) ==
    IF total_frames = 0 THEN <<>>
    ELSE LET cuts == CutsUpTo(total_frames - 1, over)
         IN  [i \in 1..Len(cuts) |->
                [start |-> cuts[i],
                 end |-> IF i < Len(cuts) THEN cuts[i + 1] ELSE total_frames - 1,
                 type |-> "shot"]]

\* detect_scenes on total_frames frame paths, over the set of the indices
\* whose histogram difference to the previous frame exceeds the threshold
detect_scenes(total_frames, over) ==
    IF total_frames = 0 THEN <<>>
    ELSE LET cuts == CutsUpTo(total_frames - 1, over)
         IN  [i \in 1..Len(cuts) |->
                [start |-> cuts[i],
                 end |-> IF i < Len(cuts) THEN cuts[i + 1] - 1 ELSE total_frames - 1,
                 type |-> "shot"]]

InitScenes ==
    /\ AtRest
    /\ \E n \in 0..MaxPaths : \E over \in SUBSET (1..(n - 1)) :
         analysis = [fn |-> "detect_scenes", done |-> FALSE,
                     total_frames |-> n, over |-> over, result |-> <<>>]

\* the call returns
DetectScenes ==
    /\ analysis.fn = "detect_scenes"
    /\ ~analysis.done
    /\ analysis' = [analysis EXCEPT
                      !.done = TRUE,
                      !.result = detect_scenes(analysis.total_frames, analysis.over)]
    /\ UNCHANGED <<jobs, queue, gridfs, upload, disk, genlog, encoded, pc, task, loc,
                   faults, taken>>

NextScenes == DetectScenes

SpecScenes == InitScenes /\ [][NextScenes]_vars

\* C17: for N >= 1 frames and any set of detected cuts the segments of
\* detect_scenes partition 0..N-1: the first starts at 0, every segment has
\* start <= end, each next one starts at the previous end + 1, the last ends at
\* N-1, and the segments start exactly at 0 and at the cuts (one segment
\* {0, N-1} without cuts; cuts at 0, 5, 12 give {0,4}, {5,11}, {12,N-1}); for
\* N = 0 the result is empty.
C17_SegmentsPartitionFrames ==
    (analysis.fn = "detect_scenes" /\ analysis.done)
    => LET N == analysis.total_frames
           segs == analysis.result
           at(a, b) == [start |-> a, end |-> b, type |-> "shot"]
       IN  /\ N = 0 => segs = <<>>
           /\ N >= 1
              => /\ Len(segs) >= 1
                 /\ segs[1].start = 0
                 /\ segs[Len(segs)].end = N - 1
                 /\ \A k \in 1..Len(segs) : segs[k].start <= segs[k].end
                 /\ \A k \in 1..(Len(segs) - 1) : segs[k + 1].start = segs[k].end + 1
                 /\ {segs[k].start : k \in 1..Len(segs)} = {0} \cup analysis.over
                 /\ \A i \in 0..(N - 1) :
                      Cardinality({k \in 1..Len(segs) :
                                     segs[k].start <= i /\ i <= segs[k].end}) = 1
                 /\ analysis.over = {} => segs = <<at(0, N - 1)>>
                 /\ analysis.over = {5, 12}
                    => segs = <<at(0, 4), at(5, 11), at(12, N - 1)>>

\* C17 witness: the call with cuts at 0, 5 and 12 has returned its three segments
C17_ThreeSegments ==
    /\ analysis.fn = "detect_scenes"
    /\ analysis.done
    /\ analysis.over = {5, 12}
    /\ Len(analysis.result) = 3
    /\ analysis.result[2].end = 11

\* C18: every change of a job's status appends exactly one entry to the job's
\* history in the same step: no status changes without its history entry.
C18_TransitionAppendsHistory ==
    [][\A j \in Jobs :
         jobs'[j].status # jobs[j].status
         => /\ Len(jobs'[j].history) = Len(jobs[j].history) + 1
            /\ SubSeq(jobs'[j].history, 1, Len(jobs[j].history)) = jobs[j].history]_vars

\* C19: a failed job has a non-empty error text, the tool's diagnostic for
\* extraction and encoding failures; the text is the one the failing handler
\* caught, and it is written in the step that sets failed and in no other.
C19_FailedCarriesError ==
    /\ [](\A j \in Jobs :
            jobs[j].status = "failed"
            => /\ jobs[j].error # NoError
               /\ jobs[j].error[1] # ""
               /\ jobs[j].error[2] \in {"probe", "extract", "audio"}
                  => jobs[j].error[1] = "stderr"
               /\ jobs[j].error[2] = "encode"
                  => jobs[j].error[1] = "Reassembly failed: stderr")
    /\ [][\A j \in Jobs :
            /\ (jobs'[j].status = "failed" /\ jobs[j].status # "failed")
               => \E w \in Workers :
                    /\ task[w] = j
                    /\ pc[w] \in {"pre_fail_update", "post_fail_update"}
                    /\ loc[w].err # NoError
                    /\ jobs'[j].error[2] = loc[w].err[2]
            /\ jobs'[j].error # jobs[j].error => jobs'[j].status = "failed"]_vars

\* C19 witness: a job failed by the encoder, with the encoder's diagnostic
C19_FailedByEncoder ==
    \E j \in Jobs :
        /\ jobs[j].status = "failed"
        /\ jobs[j].error = <<"Reassembly failed: stderr", "encode">>

\* C20: a completed job has the reference of a final video that is in GridFS,
\* the frame rate the video was encoded at as output_fps, and a completion
\* time; the three fields are written in the update that sets completed and
\* in no other step.
C20_CompletedHasArtifact ==
    /\ [](\A j \in Jobs :
            jobs[j].status = "completed"
            => /\ jobs[j].final_video_id # NoFile
               /\ jobs[j].final_video_id \in gridfs
               /\ encoded[j].done
               /\ jobs[j].output_fps = encoded[j].framerate
               /\ jobs[j].completed_at)
    /\ [][\A j \in Jobs :
            (\/ jobs'[j].final_video_id # jobs[j].final_video_id
             \/ jobs'[j].output_fps # jobs[j].output_fps
             \/ jobs'[j].completed_at # jobs[j].completed_at)
            => jobs'[j].status = "completed" /\ jobs[j].status # "completed"]_vars

\* C20 witness: a job completed with generated frames in its video
C20_CompletedWithArtifact ==
    \E j \in Jobs :
        /\ jobs[j].status = "completed"
        /\ jobs[j].final_video_id \in gridfs
        /\ Len(jobs[j].generated_frames) = 1
        /\ RatEq(jobs[j].output_fps, <<45, 1>>)


\* C21: a frame that does not decode during shot or motion analysis is skipped:
\* it does not abort handle_preprocess, no handler is in its error branch
\* because of it, and no job is failed with the analysis error.
C21_UndecodableFrameIsSkipped ==
    /\ \A w \in Workers : loc[w].err # <<"exception", "analysis">>
    /\ \A j \in Jobs :
         jobs[j].status = "failed" => jobs[j].error # <<"exception", "analysis">>

\* C22: when handle_preprocess returns, on success or failure, the frames
\* directory it made for the job is gone, and when handle_postprocess returns
\* after reconstruction, the job's extracted audio file is gone too.
C22_ScratchRemovedOnReturn ==
    [][\A w \in Workers :
         /\ (pc[w] \in PreLabels /\ pc'[w] = "pop_pre")
            => ~disk'[task[w]].frames_dir /\ disk'[task[w]].frames = 0
         /\ (pc[w] = "post_cleanup" /\ pc'[w] = "pop_pre")
            => ~disk'[task[w]].audio]_vars

\* the manifest's interpolation_params for a manifest stored after an analysis
\* that measured avg_motion_score: the analysis result's plan, or the empty
\* dict when analyze_video returned None
interpolation_params(manifest, avg_motion_score) ==
    IF manifest.analysed
    THEN determine_interpolation_params(avg_motion_score, manifest.fps)
    ELSE <<>>

\* C23: every manifest stored on a job carries an interpolation plan with the
\* three fields factor, mode and base_motion_score, the factor an integer >= 1,
\* whatever motion score the analysis measured and also when no frame was
\* extracted.
C23_ManifestCarriesPlan ==
    \A j \in Jobs :
        jobs[j].manifest.present
        => \A s \in ScoreSamples :
             LET plan == interpolation_params(jobs[j].manifest, s)
             IN  /\ DOMAIN plan = {"factor", "mode", "base_motion_score"}
                 /\ plan.factor \in Nat
                 /\ plan.factor >= 1
                 /\ plan.mode \in {"conservative", "balanced", "aggressive"}
                 /\ plan.base_motion_score = s

\* C24: a frame whose content does not resolve during reconstruction is left
\* out and nothing else is lost: the handler comes to the encoder with an input
\* the encoder can start on whenever any frame resolved, and the encoder's
\* input sequence is every frame that did resolve, in ascending index order.
C24_ResolvedFramesAreEncoded ==
    /\ \A w \in Workers :
         (pc[w] = "post_encode" /\ disk[task[w]].files # {}) => HasInput(disk[task[w]])
    /\ \A j \in Jobs : encoded[j].done => encoded[j].input = encoded[j].files

\* C25: when encoding starts, the frame files in the reconstruction workspace
\* are numbered 0 .. k-1 for the k frames that resolved, without gaps,
\* whichever frames failed to resolve.
C25_FilesNumberedWithoutGaps ==
    \A w \in Workers :
        pc[w] \in {"post_fps", "post_encode"}
        => disk[task[w]].files =
             {SavePath(i) : i \in 0..(Cardinality(disk[task[w]].files) - 1)}

\* the uploads and the worker of Spec, the running worker processes scheduled
\* fairly: a worker that can take a step of its loop or handler does
SpecFair == Init /\ [][Next]_vars /\ \A w \in Workers : WF_vars(Worker(w))

\* C26: with finitely many uploads, no worker killed and a fairly scheduled
\* worker, every uploaded job eventually is completed or failed, and the three
\* lists end up empty for good: no job stays queued, preprocessed or inferred.
C26_EveryJobFinishes ==
    /\ \A j \in Jobs :
         jobs[j].exists ~> jobs[j].status \in {"completed", "failed"}
    /\ <>[](\A q \in Queues : queue[q] = <<>>)

\* C27: completed is final: a job whose status is completed keeps that status
\* in every later step, also when a later call of the same handler run fails.
C27_CompletedIsFinal ==
    [][\A j \in Jobs : jobs[j].status = "completed" => jobs'[j].status = "completed"]_vars

\* C28: no failing call while an item is handled ends worker_loop: a worker
\* that was started is never stopped by an exception, and from inside a handler
\* it only ever leaves to the top of its loop.
C28_WorkerSurvivesErrors ==
    /\ [](\A w \in Workers : pc[w] # "dead")
    /\ [][\A w \in Workers :
            (pc[w] \in HandlerLabels /\ pc'[w] \notin HandlerLabels) => pc'[w] = "pop_pre"]_vars

=============================================================================
